---- MODULE Spec2Model ----
(***************************************************************************)
(* BookBlend, api/helper_functions.py: the Goodreads page scraper, its     *)
(* pagination driver, the Hardcover genre fetcher, the merge of the two    *)
(* record sets and the profile scraper.                                    *)
(*                                                                         *)
(* Texts are sequences of tokens.  A token is a character ("0", ",", " ")  *)
(* or a word of the page that the code only treats as a whole ("title",    *)
(* "RATING" for "'s rating", "Mar").  pandas' NaN / NA / NaT / None are    *)
(* the one value NA.                                                       *)
(***************************************************************************)
EXTENDS Integers, Sequences, FiniteSets, TLC

VARIABLES
    \* get_all_goodreads_user_books and the remote list it pages through
    service, tail, page_num, all_books_df, requested, result, raised, pc,
    \* get_genres_from_hardcover and combine_goodreads_and_hardcover
    goodreads_df, response, genres_df, merged, mpc,
    \* get_user_info
    soup, user_info, upc,
    \* the per-cell text transforms of get_goodreads_user_books_by_page
    column, cell, href, value, again, tpc

pagerVars == <<service, tail, page_num, all_books_df, requested, result, raised, pc>>
mergeVars == <<goodreads_df, response, genres_df, merged, mpc>>
profileVars == <<soup, user_info, upc>>
textVars == <<column, cell, href, value, again, tpc>>
vars == <<pagerVars, mergeVars, profileVars, textVars>>

NA == "NA"

\* ------------------------------------------------------------------ bounds
MaxPages == 4
MaxRows == 2

\* ------------------------------------------------------------ idle parts
PagerIdle ==
    /\ service = <<>> /\ tail = "empty" /\ page_num = 0 /\ all_books_df = <<>>
    /\ requested = <<>> /\ result = [returned |-> FALSE, df |-> <<>>]
    /\ raised = "none" /\ pc = "idle"

MergeIdle ==
    /\ goodreads_df = [columns |-> {}, rows |-> <<>>]
    /\ response = <<>>
    /\ genres_df = [columns |-> {}, rows |-> <<>>]
    /\ merged = [error |-> "none", rows |-> <<>>]
    /\ mpc = "idle"

ProfileIdle ==
    /\ soup = <<>> /\ user_info = <<>> /\ upc = "idle"

TextIdle ==
    /\ column = "none" /\ cell = <<>> /\ href = <<>> /\ value = <<>>
    /\ again = <<>> /\ tpc = "idle"

\* ------------------------------------------------- the pagination driver
Errors == {"ConnectionError", "ValueError"}

\* What get_goodreads_user_books_by_page(user_id, k) gives: a frame of n rows
\* or an exception.
PageResults ==
    [err : {"none"}, n : 0..MaxRows] \cup [err : Errors, n : {0}]

\* Pages beyond MaxPages are all alike: empty, or one row each for ever.
Page(k) ==
    IF k <= MaxPages THEN service[k]
    ELSE [err |-> "none", n |-> IF tail = "empty" THEN 0 ELSE 1]

\* The rows of page k, in the page's order; a row is known by where it stood.
Rows(k) == [i \in 1..Page(k).n |-> [page |-> k, row |-> i]]

PageCap == MaxPages + 1

PagerInit ==
    /\ service \in [1..MaxPages -> PageResults]
    /\ tail \in {"empty", "nonempty"}
    /\ page_num = 1
    /\ all_books_df = <<>>
    /\ requested = <<>>
    /\ result = [returned |-> FALSE, df |-> <<>>]
    /\ raised = "none"
    /\ pc = "loop"

\* A driver that catches the fetcher's error and returns what it has so far.
FetchRaisesSwallowed ==
    /\ pc = "loop" /\ page_num <= PageCap
    /\ Page(page_num).err # "none"
    /\ requested' = Append(requested, page_num)
    /\ result' = [returned |-> TRUE, df |-> all_books_df]
    /\ pc' = "done"
    /\ UNCHANGED <<service, tail, page_num, all_books_df, raised>>
    /\ UNCHANGED <<mergeVars, profileVars, textVars>>

FetchRaises ==
    /\ pc = "loop" /\ page_num <= PageCap
    /\ Page(page_num).err # "none"
    /\ requested' = Append(requested, page_num)
    /\ raised' = Page(page_num).err
    /\ pc' = "raised"
    /\ UNCHANGED <<service, tail, page_num, all_books_df, result>>
    /\ UNCHANGED <<mergeVars, profileVars, textVars>>

\* A driver that takes an empty page for a page to skip.
FetchEmptySkips ==
    /\ pc = "loop" /\ page_num <= PageCap
    /\ Page(page_num).err = "none"
    /\ Page(page_num).n = 0
    /\ requested' = Append(requested, page_num)
    /\ page_num' = page_num + 1
    /\ UNCHANGED <<service, tail, all_books_df, result, raised, pc>>
    /\ UNCHANGED <<mergeVars, profileVars, textVars>>

FetchEmpty ==
    /\ pc = "loop" /\ page_num <= PageCap
    /\ Page(page_num).err = "none"
    /\ Page(page_num).n = 0
    /\ requested' = Append(requested, page_num)
    /\ result' = [returned |-> TRUE, df |-> all_books_df]
    /\ pc' = "done"
    /\ UNCHANGED <<service, tail, page_num, all_books_df, raised>>
    /\ UNCHANGED <<mergeVars, profileVars, textVars>>

\* A driver that puts the new page in front of what it has.
FetchNonEmptyPrepend ==
    /\ pc = "loop" /\ page_num <= PageCap
    /\ Page(page_num).err = "none"
    /\ Page(page_num).n > 0
    /\ requested' = Append(requested, page_num)
    /\ all_books_df' = Rows(page_num) \o all_books_df
    /\ page_num' = page_num + 1
    /\ UNCHANGED <<service, tail, result, raised, pc>>
    /\ UNCHANGED <<mergeVars, profileVars, textVars>>

FetchNonEmpty ==
    /\ pc = "loop" /\ page_num <= PageCap
    /\ Page(page_num).err = "none"
    /\ Page(page_num).n > 0
    /\ requested' = Append(requested, page_num)
    /\ all_books_df' = all_books_df \o Rows(page_num)
    /\ page_num' = page_num + 1
    /\ UNCHANGED <<service, tail, result, raised, pc>>
    /\ UNCHANGED <<mergeVars, profileVars, textVars>>

PagerNext == FetchRaises \/ FetchEmpty \/ FetchNonEmpty

InitPager == PagerInit /\ MergeIdle /\ ProfileIdle /\ TextIdle

SpecPager == InitPager /\ [][PagerNext]_vars

\* The loop is a running call: it keeps taking its next step.
FairPager == SpecPager /\ WF_vars(PagerNext)

\* ---------------------------------------- the genre fetcher and the merger
MaxBooks == 2
MaxEntries == 2
MaxTags == 2

Ids == {"11", "22"}
Titles == {"Dune", "Emma"}
TagNames == {"classics", "fantasy"}

SeqsUpTo(S, n) == UNION {[1..k -> S] : k \in 0..n}

\* A book record, as far as the merge reads it: goodreads_id is NA when the
\* title cell had no link with a number in it.
BookRecords == [title : Titles, goodreads_id : Ids \cup {NA}]

BookColumns == {"title", "goodreads_id"}

\* pd.DataFrame(list of records): the columns are the keys of the records, so
\* a frame made of no record has no column at all.
DataFrame(records, keys) ==
    [columns |-> IF records = <<>> THEN {} ELSE keys, rows |-> records]

\* One entry of response['data']['book_mappings'].
Taggings == SeqsUpTo([tag : [tag : TagNames]], MaxTags)
Entries == [external_id : Ids, book : [taggings : Taggings]]

\* tags = [tag['tag']['tag'] for tag in entry['book']['taggings']]
TagsOf(entry) ==
    [i \in 1..Len(entry.book.taggings) |-> entry.book.taggings[i].tag.tag]

\* The loop over books_json: one {'external_id', 'tags'} record per entry.
Flatten(books_json) ==
    [i \in 1..Len(books_json) |->
        [external_id |-> books_json[i].external_id,
         tags |-> [na |-> FALSE, v |-> TagsOf(books_json[i])]]]

\* The rows a left row b gives in pd.merge(how='left'): one per right row of
\* the same key, in the right frame's order, or b alone with the right
\* frame's columns missing.
JoinedWith(b, right) ==
    LET hits == SelectSeq(right, LAMBDA r : r.external_id = b.goodreads_id)
    IN  IF hits = <<>>
        THEN << [title |-> b.title, goodreads_id |-> b.goodreads_id,
                 external_id |-> NA, tags |-> [na |-> TRUE, v |-> <<>>]] >>
        ELSE [i \in 1..Len(hits) |->
                [title |-> b.title, goodreads_id |-> b.goodreads_id,
                 external_id |-> hits[i].external_id, tags |-> hits[i].tags]]

RECURSIVE LeftJoin(_, _)
LeftJoin(left, right) ==
    IF left = <<>> THEN <<>>
    ELSE JoinedWith(Head(left), right) \o LeftJoin(Tail(left), right)

\* pd.merge(goodreads_df, hardcover_df, left_on='goodreads_id',
\* right_on='external_id', how='left'): a key that is no column of its frame
\* is a KeyError.
Merge(left, right) ==
    IF "goodreads_id" \notin left.columns \/ "external_id" \notin right.columns
    THEN [error |-> "KeyError", rows |-> <<>>]
    ELSE [error |-> "none", rows |-> LeftJoin(left.rows, right.rows)]

\* The book frame of a user with books. (The frame of a user with none is
\* pd.DataFrame(), line 107, which has no goodreads_id column either.)
MergeInit ==
    /\ goodreads_df \in {DataFrame(b, BookColumns) :
                            b \in SeqsUpTo(BookRecords, MaxBooks) \ {<<>>}}
    /\ response \in SeqsUpTo(Entries, MaxEntries)
    /\ genres_df = [columns |-> {}, rows |-> <<>>]
    /\ merged = [error |-> "none", rows |-> <<>>]
    /\ mpc = "start"

get_genres_from_hardcover ==
    /\ mpc = "start"
    /\ genres_df' = DataFrame(Flatten(response), {"external_id", "tags"})
    /\ mpc' = "fetched"
    /\ UNCHANGED <<goodreads_df, response, merged>>
    /\ UNCHANGED <<pagerVars, profileVars, textVars>>

combine_goodreads_and_hardcover ==
    /\ mpc = "fetched"
    /\ merged' = Merge(goodreads_df, genres_df)
    /\ mpc' = "merged"
    /\ UNCHANGED <<goodreads_df, response, genres_df>>
    /\ UNCHANGED <<pagerVars, profileVars, textVars>>

MergeNext == get_genres_from_hardcover \/ combine_goodreads_and_hardcover

InitMerge == PagerIdle /\ MergeInit /\ ProfileIdle /\ TextIdle

SpecMerge == InitMerge /\ [][MergeNext]_vars

\* ------------------------------------------------- the profile scraper
\* What soup.find(...) meets for a field read from an attribute: no such
\* element, the element without the attribute, or the attribute's text.
Element(values) ==
    [el : {"absent", "noattr"}, attr : {<<>>}] \cup [el : {"ok"}, attr : values]

\* What re.search meets in a text: no match, or the text of group 1.
Search(groups) ==
    [match : {FALSE}, group : {<<>>}] \cup [match : {TRUE}, group : groups]

\* href values of <link rel="canonical">: the '/'-separated segments, each
\* the list of its '-'-separated parts.
Hrefs ==
    { << <<"www.goodreads.com">>, <<"user">>, <<"show">>, <<"42944663", "ben">> >>,
      << <<"">> >> }

Names == { <<"B", "e", "n">> }
Counts == { <<"7">>, <<"1", ",", "2", "3", "4">> }

\* soup['attr'] in try/except TypeError: None['attr'] is a TypeError and is
\* caught; a tag without the attribute is a KeyError and is not.
Attribute(e) ==
    CASE e.el = "absent" -> [error |-> "none", v |-> <<>>]
      [] e.el = "noattr" -> [error |-> "KeyError", v |-> <<>>]
      [] OTHER -> [error |-> "none", v |-> e.attr]

\* canonical_link.split('/')[-1].split('-')[0]
UserIdOf(link) == IF link = <<>> THEN <<>> ELSE link[Len(link)][1]

\* str.replace(',', '')
WithoutCommas(t) == SelectSeq(t, LAMBDA c : c # ",")

\* match.group(1).replace(',', '') in try/except AttributeError: None.group
\* is an AttributeError and is caught.
GroupDigits(m) == IF m.match THEN WithoutCommas(m.group) ELSE <<>>

\* soup.find('title').text, then the search in it: no title element is an
\* AttributeError, caught by the same handler.
TitleDigits(e) ==
    IF e.el = "absent" THEN <<>> ELSE GroupDigits(e.search)

AttrFields == {"user_id", "full_name", "first_name", "last_name", "username"}
SearchFields == {"books_read", "currently_reading_count", "to_read_count",
                 "number_of_friends"}
TenFields == AttrFields \cup SearchFields \cup {"books_shelved"}

\* The value each try block leaves in its variable, and the error it lets by.
Extracted(page, f) ==
    CASE f = "user_id" ->
            LET a == Attribute(page[f])
            IN  [error |-> a.error, v |-> UserIdOf(a.v)]
      [] f \in AttrFields \ {"user_id"} -> Attribute(page[f])
      [] f = "books_shelved" -> [error |-> "none", v |-> TitleDigits(page[f])]
      [] OTHER -> [error |-> "none", v |-> GroupDigits(page[f])]

ProfileInit ==
    /\ soup \in
         [user_id : Element(Hrefs),
          full_name : Element(Names), first_name : Element(Names),
          last_name : Element(Names), username : Element(Names),
          books_shelved : [el : {"absent"}, search : Search({})]
                             \cup [el : {"ok"}, search : Search(Counts)],
          books_read : Search(Counts),
          currently_reading_count : Search(Counts),
          to_read_count : Search(Counts),
          number_of_friends : Search({<<"7">>})]
    /\ user_info = <<>>
    /\ upc = "start"

\* The ten try blocks in turn, then the return: an error no handler catches
\* ends the call there.
get_user_info ==
    /\ upc = "start"
    /\ IF \E f \in TenFields : Extracted(soup, f).error # "none"
       THEN /\ upc' = "raised"
            /\ UNCHANGED user_info
       ELSE /\ upc' = "done"
            /\ user_info' = [f \in TenFields |-> Extracted(soup, f).v]
    /\ UNCHANGED soup
    /\ UNCHANGED <<pagerVars, mergeVars, textVars>>

ProfileNext == get_user_info

InitProfile == PagerIdle /\ MergeIdle /\ ProfileInit /\ TextIdle

SpecProfile == InitProfile /\ [][ProfileNext]_vars

\* ------------------------------------------------------ texts and values
\* A value of a parsed column: missing, a text, an integer, a decimal, a
\* boolean or a date.
Missing == [na |-> TRUE]

Digits == {"0", "1", "2", "4", "9"}
IsDigit(c) == c \in Digits
DigitVal(c) ==
    CASE c = "0" -> 0 [] c = "1" -> 1 [] c = "2" -> 2 [] c = "4" -> 4 [] c = "9" -> 9

MinOf(S) == CHOOSE x \in S : \A y \in S : x <= y
MaxOf(S) == CHOOSE x \in S : \A y \in S : x >= y

\* Whether pat stands in s at index i.
StartsAt(s, pat, i) ==
    /\ i + Len(pat) - 1 <= Len(s)
    /\ SubSeq(s, i, i + Len(pat) - 1) = pat

\* str.find: the index of the first occurrence of pat in s, 0 when none.
Find(s, pat) ==
    LET hits == {i \in 1..Len(s) : StartsAt(s, pat, i)}
    IN  IF hits = {} THEN 0 ELSE MinOf(hits)

\* pat in s
Contains(s, pat) == Find(s, pat) # 0

\* s.replace(pat, '', 1): the first occurrence of pat taken out, wherever
\* it stands.
ReplaceFirst(s, pat) ==
    LET i == Find(s, pat)
    IN  IF i = 0 THEN s
        ELSE SubSeq(s, 1, i - 1) \o SubSeq(s, i + Len(pat), Len(s))

\* str.strip()
Strip(s) ==
    LET solid == {i \in 1..Len(s) : s[i] # " "}
    IN  IF solid = {} THEN <<>> ELSE SubSeq(s, MinOf(solid), MaxOf(solid))

\* str.split(): the whitespace-separated words of s.
RECURSIVE Split(_)
Split(s) ==
    LET solid == {i \in 1..Len(s) : s[i] # " "}
    IN  IF solid = {} THEN <<>>
        ELSE LET a == MinOf(solid)
                 gaps == {i \in a..Len(s) : s[i] = " "}
                 b == IF gaps = {} THEN Len(s) + 1 ELSE MinOf(gaps)
             IN  <<SubSeq(s, a, b - 1)>> \o Split(SubSeq(s, b, Len(s)))

\* The last index of the run of digits that starts at p.
RunEnd(s, p) ==
    LET others == {i \in p..Len(s) : ~IsDigit(s[i])}
    IN  IF others = {} THEN Len(s) ELSE MinOf(others) - 1

\* Series.str.extract(r'(\d+)'): the first run of digits, or missing.
ExtractDigits(s) ==
    LET ds == {i \in 1..Len(s) : IsDigit(s[i])}
    IN  IF ds = {} THEN Missing
        ELSE [text |-> SubSeq(s, MinOf(ds), RunEnd(s, MinOf(ds)))]

RECURSIVE ToInt(_)
ToInt(ds) ==
    IF ds = <<>> THEN 0
    ELSE ToInt(SubSeq(ds, 1, Len(ds) - 1)) * 10 + DigitVal(ds[Len(ds)])

\* A conversion that fills what is missing with 0.
ToNumericFillZero(x) == IF x = Missing THEN [int |-> 0] ELSE [int |-> ToInt(x.text)]

\* pd.to_numeric(errors='coerce') of an extracted run of digits.
ToNumeric(x) == IF x = Missing THEN Missing ELSE [int |-> ToInt(x.text)]

\* ------------------------------------------------------------ user_rating
MaxRatingLen == 5

\* "RATING" is the text "'s rating"; "n" is a character of the reader's name.
RatingAlphabet ==
    {"n", " ", "RATING", "really", "did not like it", "it was ok", "liked it",
     "it was amazing"}

\* A mapping that takes any phrase ending in a phrase of the vocabulary.
rating_mapping_suffix(phrase) ==
    IF phrase = <<>> THEN Missing
    ELSE CASE phrase[Len(phrase)] = "did not like it" -> [int |-> 1]
           [] phrase[Len(phrase)] = "it was ok" -> [int |-> 2]
           [] phrase[Len(phrase)] = "liked it" -> [int |-> 3]
           [] phrase[Len(phrase)] = "it was amazing" -> [int |-> 5]
           [] OTHER -> Missing

\* rating_mapping, and Series.map's missing for a key that is not in it.
rating_mapping(phrase) ==
    CASE phrase = <<"did not like it">> -> [int |-> 1]
      [] phrase = <<"it was ok">> -> [int |-> 2]
      [] phrase = <<"liked it">> -> [int |-> 3]
      [] phrase = <<"really", " ", "liked it">> -> [int |-> 4]
      [] phrase = <<"it was amazing">> -> [int |-> 5]
      [] OTHER -> Missing

\* str.extract(r"(.+?)'s rating\s*(.*?)$")[1].str.strip(): group 1 takes one
\* character at least, so the match is at the first "'s rating" that has
\* something before it; group 2 is the rest of the text.
ExtractRatingPhrase(s) ==
    LET at == {j \in 2..Len(s) : s[j] = "RATING"}
    IN  IF at = {} THEN Missing
        ELSE [text |-> Strip(SubSeq(s, MinOf(at) + 1, Len(s)))]

UserRating(s) ==
    LET x == ExtractRatingPhrase(s)
    IN  IF x = Missing THEN Missing ELSE rating_mapping(x.text)

RatingInit ==
    /\ column = "rating.1"
    /\ cell \in SeqsUpTo(RatingAlphabet, MaxRatingLen)
    /\ href = <<>> /\ value = <<>> /\ again = <<>>
    /\ tpc = "start"

ParseUserRating ==
    /\ tpc = "start"
    /\ value' = UserRating(cell)
    /\ tpc' = "done"
    /\ UNCHANGED <<column, cell, href, again>>
    /\ UNCHANGED <<pagerVars, mergeVars, profileVars>>

RatingNext == ParseUserRating

InitRating == PagerIdle /\ MergeIdle /\ ProfileIdle /\ RatingInit

SpecRating == InitRating /\ [][RatingNext]_vars

\* -------------------------------------------------------------- the dates
MaxDateLen == 5

DateAlphabet == {"March", "15,", "2020", "not", "set", " "}
DateTexts == SeqsUpTo(DateAlphabet, MaxDateLen)

\* The label of a date cell: 'date read' in column started, 'date added' in
\* column read (lines 91 and 95).
Label(col) ==
    IF col = "started" THEN <<"date", " ", "read">> ELSE <<"date", " ", "added">>

\* A slip of the index: f"{parts[0]} 1, {parts[0]}"
InsertDayTwiceFirst(parts) == parts[1] \o <<" ", "1,", " ">> \o parts[1]

\* f"{parts[0]} 1, {parts[1]}"
InsertDay(parts) == parts[1] \o <<" ", "1,", " ">> \o parts[2]

\* format_date(date_str) for a text or a missing value.
format_date(x) ==
    IF x = Missing THEN Missing
    ELSE IF Contains(x.text, <<"not", " ", "set">>) THEN Missing
    ELSE IF Len(Split(x.text)) = 2 THEN [text |-> InsertDay(Split(x.text))]
    ELSE x

\* Series.str.extract(r'date read\s*(.*)')[0]: what follows the first label
\* and the whitespace after it, or missing when the cell has no label.
ExtractAfterLabel(s, label) ==
    LET at == Find(s, label)
    IN  IF at = 0 THEN Missing
        ELSE LET rest == SubSeq(s, at + Len(label), Len(s))
                 solid == {i \in 1..Len(rest) : rest[i] # " "}
             IN  [text |-> IF solid = {} THEN <<>>
                           ELSE SubSeq(rest, MinOf(solid), Len(rest))]

\* series.replace('not set', pd.NA): a value that is 'not set', whole.
ReplaceNotSet(x) ==
    IF x # Missing /\ x.text = <<"not", " ", "set">> THEN Missing ELSE x

\* The lambda of line 47.
InsertDefaultDay(x) ==
    IF x # Missing /\ Len(Split(x.text)) = 2
    THEN [text |-> InsertDay(Split(x.text))]
    ELSE x

MonthNo(w) == IF w = <<"March">> THEN 3 ELSE 0
DayNo(w) == IF w = <<"15,">> THEN 15 ELSE IF w = <<"1,">> THEN 1 ELSE 0
YearNo(w) == IF w = <<"2020">> THEN 2020 ELSE 0

IsMonthDayYear(w) ==
    Len(w) = 3 /\ MonthNo(w[1]) # 0 /\ DayNo(w[2]) # 0 /\ YearNo(w[3]) # 0

\* A date the parser made of a text that is not 'Month Day, Year'.
OtherDate == [date |-> [y |-> 0, m |-> 0, d |-> 0]]

\* pd.to_datetime(errors='coerce') of one value: missing stays missing, the
\* empty text is missing, 'Month Day, Year' is that date; what the parser
\* makes of any other text is its own affair: missing, or some date.
to_datetime(x) ==
    IF x = Missing THEN {Missing}
    ELSE LET w == Split(x.text)
         IN  IF w = <<>> THEN {Missing}
             ELSE IF IsMonthDayYear(w)
             THEN {[date |-> [y |-> YearNo(w[3]), m |-> MonthNo(w[1]), d |-> DayNo(w[2])]]}
             ELSE {Missing, OtherDate}

\* format_and_convert_date, for one value of the series.
ConvertedDates(s, label) ==
    to_datetime(InsertDefaultDay(ReplaceNotSet(ExtractAfterLabel(s, label))))

DateInit ==
    /\ column \in {"started", "read"}
    /\ cell \in {pre \o d : pre \in {<<>>, Label(column), Label(column) \o <<" ">>},
                             d \in DateTexts}
    /\ href = <<>> /\ value = <<>> /\ again = <<>>
    /\ tpc = "start"

\* format_date on the text of the cell.
FormatDate ==
    /\ tpc = "start"
    /\ value' = format_date([text |-> cell])
    /\ tpc' = "formatted"
    /\ UNCHANGED <<column, cell, href, again>>
    /\ UNCHANGED <<pagerVars, mergeVars, profileVars>>

\* format_and_convert_date on the cell, with the pattern of its column.
FormatAndConvertDate ==
    /\ tpc = "start"
    /\ value' \in ConvertedDates(cell, Label(column))
    /\ tpc' = "converted"
    /\ UNCHANGED <<column, cell, href, again>>
    /\ UNCHANGED <<pagerVars, mergeVars, profileVars>>

DateNext == FormatDate \/ FormatAndConvertDate

InitDate == PagerIdle /\ MergeIdle /\ ProfileIdle /\ DateInit

SpecDate == InitDate /\ [][DateNext]_vars

\* ------------------------------------------------- the title and the author
MaxTextLen == 5

TitleAlphabet == {"title", " ", "x"}
AuthorAlphabet == {"author", " ", "*", "x"}

\* A title transform that takes the label off the front of the text only.
TitleOfLeading(s) ==
    Strip(IF StartsAt(s, <<"title", " ">>, 1) THEN SubSeq(s, 3, Len(s)) ELSE s)

\* x.replace('title ', '', 1), then .str.strip()
TitleOf(s) == Strip(ReplaceFirst(s, <<"title", " ">>))

\* x.replace('author ', '', 1), x.replace(' *', '', 1), then .str.strip()
AuthorOf(s) ==
    Strip(ReplaceFirst(ReplaceFirst(s, <<"author", " ">>), <<" ", "*">>))

\* The text transform of a column, on a value of that column.
Transform(col, x) ==
    CASE col = "title" -> [text |-> TitleOf(x.text)]
      [] col = "author" -> [text |-> AuthorOf(x.text)]
      [] OTHER -> format_date(x)

TextsOf(col) ==
    CASE col = "title" -> SeqsUpTo(TitleAlphabet, MaxTextLen)
      [] col = "author" -> SeqsUpTo(AuthorAlphabet, MaxTextLen)
      [] OTHER -> DateTexts

IdemInit ==
    /\ column \in {"title", "author", "format_date"}
    /\ cell \in TextsOf(column)
    /\ href = <<>> /\ value = <<>> /\ again = <<>>
    /\ tpc = "start"

\* The transform on the text of the cell.
ApplyTransform ==
    /\ tpc = "start"
    /\ value' = Transform(column, [text |-> cell])
    /\ tpc' = "once"
    /\ UNCHANGED <<column, cell, href, again>>
    /\ UNCHANGED <<pagerVars, mergeVars, profileVars>>

\* The transform on its own output.
ReapplyTransform ==
    /\ tpc = "once"
    /\ again' = Transform(column, value)
    /\ tpc' = "twice"
    /\ UNCHANGED <<column, cell, href, value>>
    /\ UNCHANGED <<pagerVars, mergeVars, profileVars>>

IdemNext == ApplyTransform \/ ReapplyTransform

InitIdem == PagerIdle /\ MergeIdle /\ ProfileIdle /\ IdemInit

SpecIdem == InitIdem /\ [][IdemNext]_vars

\* ------------------------------------------------- the columns of a row
MaxCellLen == 4

\* A character of \w: a letter or a digit (a word of letters is one token).
IsWord(c) == c \notin {" ", ",", ".", "/", "*"}

\* Series.str.extract(r'(\d+\.\d+)'): the first digits '.' digits.
ExtractDecimal(s) ==
    LET at == {p \in 1..Len(s) :
                  /\ IsDigit(s[p])
                  /\ RunEnd(s, p) + 2 <= Len(s)
                  /\ s[RunEnd(s, p) + 1] = "."
                  /\ IsDigit(s[RunEnd(s, p) + 2])}
    IN  IF at = {} THEN Missing
        ELSE [text |-> SubSeq(s, MinOf(at), RunEnd(s, RunEnd(s, MinOf(at)) + 2))]

\* pd.to_numeric of digits '.' digits: the whole part and the decimals.
ToDecimal(x) ==
    IF x = Missing THEN Missing
    ELSE LET dot == Find(x.text, <<".">>)
         IN  [dec |-> [whole |-> ToInt(SubSeq(x.text, 1, dot - 1)),
                       decimals |-> SubSeq(x.text, dot + 1, Len(x.text))]]

\* (\d{1,4})\b at q: a run of at most four digits that ends the text or
\* stands before a character that is not of \w.
YearAt(s, q) ==
    IF /\ q <= Len(s)
       /\ IsDigit(s[q])
       /\ RunEnd(s, q) - q + 1 <= 4
       /\ (RunEnd(s, q) = Len(s) \/ ~IsWord(s[RunEnd(s, q) + 1]))
    THEN [text |-> SubSeq(s, q, RunEnd(s, q))]
    ELSE Missing

\* (?:\b\d{1,2},\s)?(\d{1,4})\b at p: with the day and its comma and
\* space when they are there and a year follows them, else the year at p.
YearMatchAt(s, p) ==
    LET r == RunEnd(s, p) - p + 1
        day == /\ IsDigit(s[p])
               /\ (p = 1 \/ ~IsWord(s[p - 1]))
               /\ r <= 2
               /\ p + r + 1 <= Len(s)
               /\ s[p + r] = ","
               /\ s[p + r + 1] = " "
    IN  IF day /\ YearAt(s, p + r + 2) # Missing
        THEN YearAt(s, p + r + 2)
        ELSE YearAt(s, p)

\* Series.str.extract of the year pattern: the leftmost match.
ExtractYear(s) ==
    LET at == {p \in 1..Len(s) : YearMatchAt(s, p) # Missing}
    IN  IF at = {} THEN Missing ELSE YearMatchAt(s, MinOf(at))

PubLabel == <<"date", " ", "pub", " ">>

\* user_books['read?'] > 0: a missing number is not greater than 0.
GreaterThanZero(x) == [bool |-> x # Missing /\ x.int > 0]

Columns ==
    {"title", "author", "goodreads_id", "pages", "rating", "ratings", "pub",
     "rating.1", "started", "read", "votes"}

\* The values a column of the returned frame may have for a row whose cell
\* of that column has text `text` and link `link` (goodreads_id is read off
\* the link of the title cell).
FieldValues(col, text, link) ==
    CASE col = "title" -> {[text |-> TitleOf(text)]}
      [] col = "author" -> {[text |-> AuthorOf(text)]}
      [] col = "goodreads_id" ->
            {IF link = Missing THEN Missing ELSE ExtractDigits(link.text)}
      [] col = "pages" -> {ToNumeric(ExtractDigits(text))}
      [] col = "rating" -> {ToDecimal(ExtractDecimal(text))}
      [] col = "ratings" -> {ToNumeric(ExtractDigits(WithoutCommas(text)))}
      [] col = "pub" -> {ToNumeric(ExtractYear(ReplaceFirst(text, PubLabel)))}
      [] col = "rating.1" -> {UserRating(text)}
      [] col = "votes" -> {GreaterThanZero(ToNumeric(ExtractDigits(text)))}
      [] OTHER -> ConvertedDates(text, Label(col))

\* The texts of a cell of each column, up to MaxCellLen tokens ("p", "r",
\* "t", "x" and "b" are letters).
CellTexts(col) ==
    CASE col = "title" -> SeqsUpTo(TitleAlphabet, MaxCellLen)
      [] col = "author" -> SeqsUpTo(AuthorAlphabet, MaxCellLen)
      [] col = "goodreads_id" -> {<<"title", " ", "x">>}
      [] col = "pages" -> SeqsUpTo({"0", "4", " ", "p"}, MaxCellLen)
      [] col = "rating" -> SeqsUpTo({"0", "4", ".", "r"}, MaxCellLen)
      [] col = "ratings" -> SeqsUpTo({"0", "1", ",", " "}, MaxCellLen)
      [] col = "pub" ->
            {pre \o t : pre \in {<<>>, PubLabel},
                        t \in SeqsUpTo({"1", "9", ",", " ", "x"}, MaxCellLen)}
      [] col = "rating.1" -> SeqsUpTo(RatingAlphabet, MaxCellLen)
      [] col = "votes" -> SeqsUpTo({"0", "4", " ", "t"}, MaxCellLen)
      [] OTHER ->
            {pre \o d : pre \in {<<>>, Label(col), Label(col) \o <<" ">>},
                        d \in SeqsUpTo(DateAlphabet, MaxCellLen)}

\* The link of a cell: none, or its target.
CellLinks(col) ==
    IF col = "goodreads_id"
    THEN {Missing} \cup {[text |-> t] : t \in SeqsUpTo({"/", "4", "2", "b"}, MaxCellLen)}
    ELSE {Missing}

RowInit ==
    /\ column \in Columns
    /\ cell \in CellTexts(column)
    /\ href \in CellLinks(column)
    /\ value = <<>> /\ again = <<>>
    /\ tpc = "start"

\* Lines 59-100 for one column of one row.
ParseCell ==
    /\ tpc = "start"
    /\ value' \in FieldValues(column, cell, href)
    /\ tpc' = "done"
    /\ UNCHANGED <<column, cell, href, again>>
    /\ UNCHANGED <<pagerVars, mergeVars, profileVars>>

RowNext == ParseCell

InitRow == PagerIdle /\ MergeIdle /\ ProfileIdle /\ RowInit

SpecRow == InitRow /\ [][RowNext]_vars

\* ---------------------------------------------- claims on the driver
NonEmptyPage(k) == Page(k).err = "none" /\ Page(k).n > 0
EmptyPage(k) == Page(k).err = "none" /\ Page(k).n = 0

\* The service serves pages 1..N non-empty and page N+1 empty.
ServesThenEmpty(N) ==
    /\ \A k \in 1..N : NonEmptyPage(k)
    /\ EmptyPage(N + 1)

\* The records of pages 1..N, page after page.
RECURSIVE PagesInOrder(_)
PagesInOrder(N) == IF N = 0 THEN <<>> ELSE PagesInOrder(N - 1) \o Rows(N)

\* Against a service that serves N non-empty pages and then an empty one the
\* driver never asks beyond page N+1, does not fail, and when it has
\* returned, it returned on page N+1 exactly the records of pages 1..N in page
\* order and row order, each once, and nothing of any later page.
ReturnsPagesInOrder ==
    \A N \in 0..MaxPages :
        ServesThenEmpty(N) =>
            /\ pc # "raised"
            /\ page_num <= N + 1
            /\ pc = "done" =>
                   /\ page_num = N + 1
                   /\ result = [returned |-> TRUE, df |-> PagesInOrder(N)]

\* C1: for any service that serves N >= 0 non-empty pages and then an empty
\* one, the driver terminates on that first empty page and returns exactly
\* the records of pages 1..N, concatenated in page order, none of a later
\* page, none dropped or duplicated.
C1_PagesInOrder ==
    /\ []ReturnsPagesInOrder
    /\ \A N \in 0..MaxPages :
           ServesThenEmpty(N) ~> (pc = "done" /\ page_num = N + 1)

\* C1 witness: a return after two or more non-empty pages of which one has
\* several rows, with a non-empty page behind the empty one.
C1_Witness ==
    /\ pc = "done"
    /\ page_num >= 3
    /\ Len(result.df) > page_num - 1
    /\ \E k \in (page_num + 1)..MaxPages : NonEmptyPage(k)

\* C8 (the order of requests): the pages requested are 1, 2, 3, ... without gap
\* or repeat, every requested page but the last was found non-empty, and the
\* driver has returned only if the last page it requested was empty.
RequestsInSequence ==
    /\ \A i \in 1..Len(requested) : requested[i] = i
    /\ \A i \in 1..(Len(requested) - 1) : NonEmptyPage(requested[i])
    /\ pc = "loop" => page_num = Len(requested) + 1
    /\ pc = "done" => Len(requested) > 0 /\ EmptyPage(requested[Len(requested)])

\* Some page is empty and no page before it fails.
ServiceEndsList == \E N \in 0..MaxPages : ServesThenEmpty(N)

\* C8: requests are strictly sequential, and the driver returns if and only
\* if the service comes to an empty page: it does return when there is one, and
\* it never returns while every page served is non-empty.
C8_SequentialUntilEmpty ==
    /\ []RequestsInSequence
    /\ (ServiceEndsList ~> pc = "done")
    /\ [](pc = "done" => ServiceEndsList)

\* C8 witness: the driver is still asking, past the last listed page, of a
\* service whose every page is non-empty.
C8_Witness ==
    /\ pc = "loop"
    /\ page_num > MaxPages
    /\ tail = "nonempty"
    /\ \A k \in 1..MaxPages : NonEmptyPage(k)

\* C10: when the page last requested made the fetcher raise, the driver has
\* ended with that very error, has returned nothing, and requests no further
\* page (the failed page was requested once).
C10_ErrorPropagates ==
    (Len(requested) > 0 /\ Page(requested[Len(requested)]).err # "none") =>
        /\ pc = "raised"
        /\ raised = Page(requested[Len(requested)]).err
        /\ ~result.returned
        /\ \A i \in 1..Len(requested) : requested[i] = i
        /\ ~ENABLED PagerNext

\* C10 witness: the fetcher raised on a page k >= 2, with records of the pages
\* before it already accumulated.
C10_Witness ==
    /\ pc = "raised"
    /\ Len(requested) >= 2
    /\ Len(all_books_df) >= 2

\* ------------------------------------- claims on the fetcher and merger
\* How many elements of sequence q satisfy P.
Count(q, P(_)) == Cardinality({i \in 1..Len(q) : P(q[i])})

\* m: the genre records whose external_id equals b's goodreads_id.
Matches(b) == Count(response, LAMBDA e : e.external_id = b.goodreads_id)

Max(a, b) == IF a >= b THEN a ELSE b

\* C2: the merge is a left join: it gives a result; every book record b has
\* max(1, m) output rows for each of its input rows; a book with m = 0 has
\* tags absent; the output has at least as many rows as there are books, and
\* as many exactly when no matched genre identifier is duplicated.
C2_LeftJoin ==
    mpc = "merged" =>
        /\ merged.error = "none"
        /\ \A b \in BookRecords :
               /\ Count(merged.rows,
                        LAMBDA r : r.title = b.title /\ r.goodreads_id = b.goodreads_id)
                    = Count(goodreads_df.rows, LAMBDA x : x = b) * Max(1, Matches(b))
               /\ Matches(b) = 0 =>
                      \A i \in 1..Len(merged.rows) :
                          (merged.rows[i].title = b.title
                             /\ merged.rows[i].goodreads_id = b.goodreads_id)
                          => merged.rows[i].tags.na
        /\ Len(merged.rows) >= Len(goodreads_df.rows)
        /\ (Len(merged.rows) = Len(goodreads_df.rows))
             <=> (\A i \in 1..Len(goodreads_df.rows) :
                     Matches(goodreads_df.rows[i]) <= 1)

\* The same, for the frames that have their key column.
LeftJoinOfKeyedFrames ==
    ("goodreads_id" \in goodreads_df.columns /\ "external_id" \in genres_df.columns)
        => C2_LeftJoin

\* C9: the fetcher gives one record per entry of the response, in the
\* response's order, and the merge of its output with any book record set
\* gives a result that holds every book record, with tags absent for the
\* books no entry matches - also when the response has no entry.
C9_FetchThenMerge ==
    /\ mpc # "start" =>
           /\ Len(genres_df.rows) = Len(response)
           /\ \A i \in 1..Len(response) :
                  /\ genres_df.rows[i].external_id = response[i].external_id
                  /\ genres_df.rows[i].tags.v = TagsOf(response[i])
    /\ mpc = "merged" =>
           /\ merged.error = "none"
           /\ \A i \in 1..Len(goodreads_df.rows) :
                  \E j \in 1..Len(merged.rows) :
                      /\ merged.rows[j].title = goodreads_df.rows[i].title
                      /\ merged.rows[j].goodreads_id = goodreads_df.rows[i].goodreads_id
                      /\ Matches(goodreads_df.rows[i]) = 0 => merged.rows[j].tags.na

\* ------------------------------------------- claims on the profile scraper
\* The extraction of field f fails: element absent, attribute absent, or no
\* match of the pattern.
Fails(page, f) ==
    CASE f \in AttrFields -> page[f].el # "ok"
      [] f = "books_shelved" -> page[f].el = "absent" \/ ~page[f].search.match
      [] OTHER -> ~page[f].match

\* The text a field's element holds when its extraction does not fail.
Held(page, f) ==
    CASE f = "user_id" -> UserIdOf(page[f].attr)
      [] f \in AttrFields \ {"user_id"} -> page[f].attr
      [] f = "books_shelved" -> WithoutCommas(page[f].search.group)
      [] OTHER -> WithoutCommas(page[f].group)

\* C3: whatever fields are missing or malformed, the call does not raise and
\* returns all ten keys, the empty string for each field whose extraction
\* failed and the extracted value for every other field.
C3_NeverRaises ==
    upc # "start" =>
        /\ upc = "done"
        /\ DOMAIN user_info = TenFields
        /\ \A f \in TenFields :
               user_info[f] = IF Fails(soup, f) THEN <<>> ELSE Held(soup, f)

\* The same, for the pages on which every element that is there has its
\* attribute.
DefaultsWhenAttributesPresent ==
    (\A f \in AttrFields : soup[f].el # "noattr") => C3_NeverRaises

\* ------------------------------------------------- claims on user_rating
\* The five phrases of the vocabulary, as the claim lists them.
Vocabulary(phrase) ==
    IF phrase = <<"did not like it">> THEN [int |-> 1]
    ELSE IF phrase = <<"it was ok">> THEN [int |-> 2]
    ELSE IF phrase = <<"liked it">> THEN [int |-> 3]
    ELSE IF phrase = <<"really", " ", "liked it">> THEN [int |-> 4]
    ELSE IF phrase = <<"it was amazing">> THEN [int |-> 5]
    ELSE Missing

\* C4 as stated: the text that follows "'s rating" (the first one in the cell,
\* wherever it stands) is mapped by the vocabulary, and a cell without
\* "'s rating" gives missing.
C4_AsStated ==
    tpc = "done" =>
        LET at == Find(cell, <<"RATING">>)
        IN  value = IF at = 0 THEN Missing
                    ELSE Vocabulary(Strip(SubSeq(cell, at + 1, Len(cell))))

\* C4 amended: the text that follows the first "'s rating" that has at least
\* one character before it is mapped by the vocabulary; a cell with no such
\* "'s rating" gives missing; the result is missing or an integer in 1..5.
C4_RatingAfterName ==
    tpc = "done" =>
        /\ value \in {Missing} \cup {[int |-> n] : n \in 1..5}
        /\ \A j \in 2..Len(cell) :
               (cell[j] = "RATING" /\ \A i \in 2..(j - 1) : cell[i] # "RATING")
                   => value = Vocabulary(Strip(SubSeq(cell, j + 1, Len(cell))))
        /\ (\A j \in 2..Len(cell) : cell[j] # "RATING") => value = Missing

\* C4 witness: "really liked it" after a name and "'s rating" gave 4.
C4_Witness ==
    /\ tpc = "done"
    /\ cell = <<"n", "RATING", "really", " ", "liked it">>
    /\ value = [int |-> 4]

\* ------------------------------------------------------ claims on the dates
MonthYear == << <<"March">>, <<"2020">> >>
MonthDayYear == << <<"March">>, <<"15,">>, <<"2020">> >>

\* The date text of the cell: what stands after the column's label.
DateText == ExtractAfterLabel(cell, Label(column))

C6_AsStated == tpc = "twice" => again = value

\* C6 amended: the title and author transforms give their own output again
\* exactly when that output holds none of the texts they take out ("title "
\* for the title, "author " and " *" for the author); format_date gives its
\* own output again for every text.
C6_IdempotentUnlessMarked ==
    tpc = "twice" =>
        /\ column = "title" =>
               (again = value <=> ~Contains(value.text, <<"title", " ">>))
        /\ column = "author" =>
               (again = value <=> /\ ~Contains(value.text, <<"author", " ">>)
                                  /\ ~Contains(value.text, <<" ", "*">>))
        /\ column = "format_date" => again = value

\* C6 witness: a title cell with its label, normalized twice to the same text.
C6_Witness ==
    /\ tpc = "twice"
    /\ column = "title"
    /\ cell = <<"title", " ", "x", " ", "x">>
    /\ value = [text |-> <<"x", " ", "x">>]
    /\ again = value

\* ---------------------------------------------- claims on the row parser
HasDigit(s) == \E i \in 1..Len(s) : IsDigit(s[i])

\* What holds of every field but read?: goodreads_id, pages, total ratings
\* and pub year are missing when their source has no digit, the average
\* rating when the cell has no digits '.' digits, user_rating when no
\* "'s rating" follows a name, the dates when the cell has no label; title and
\* author, which are texts, are the empty text for an empty cell.
NothingFoundIsMissing ==
    /\ column \in {"pages", "ratings"} =>
           (value = Missing <=> ~HasDigit(cell))
    /\ column = "pub" => (~HasDigit(cell) => value = Missing)
    /\ column = "goodreads_id" =>
           (value = Missing <=> (href = Missing \/ ~HasDigit(href.text)))
    /\ column = "rating" =>
           (value = Missing <=>
               ~\E i \in 1..(Len(cell) - 2) :
                   IsDigit(cell[i]) /\ cell[i + 1] = "." /\ IsDigit(cell[i + 2]))
    /\ column = "rating.1" =>
           ((\A j \in 2..Len(cell) : cell[j] # "RATING") => value = Missing)
    /\ column \in {"started", "read"} =>
           (~Contains(cell, Label(column)) => value = Missing)
    /\ column \in {"title", "author"} =>
           /\ DOMAIN value = {"text"}
           /\ cell = <<>> => value = [text |-> <<>>]

\* C7 as stated: parsing a row does not raise, a field whose extraction finds
\* nothing in its cell is missing (an empty text, for the two text fields),
\* and read? is missing, not false, when the cell has no integer.
C7_AsStated ==
    /\ tpc \in {"start", "done"}
    /\ tpc = "done" =>
           /\ NothingFoundIsMissing
           /\ (column = "votes" /\ ~HasDigit(cell)) => value = Missing

\* C7 amended: the same, but read? is always a boolean, and false when the
\* cell has no integer.
C7_MissingOrDefault ==
    /\ tpc \in {"start", "done"}
    /\ tpc = "done" =>
           /\ NothingFoundIsMissing
           /\ column = "votes" =>
                  /\ DOMAIN value = {"bool"}
                  /\ ~HasDigit(cell) => value = [bool |-> FALSE]

\* C7 witness: a votes cell without integer gave read? = false.
C7_Witness ==
    /\ tpc = "done"
    /\ column = "votes"
    /\ cell = <<"t">>
    /\ value = [bool |-> FALSE]
====
